---------------------------- MODULE Spec2Model ----------------------------
(***************************************************************************)
(* imgui_sugar: RAII scope guards (guard_bool / guard_void, BooleanGuard)  *)
(* and the with_* / set_* macros that bind ImGui Begin/End and Push/Pop    *)
(* pairs to them.                                                          *)
(*                                                                         *)
(* The model runs one function body that uses the constructs.  Its state   *)
(* is the stack of open lexical scopes with the guards declared in each,   *)
(* ImGui's own begin/end stack, and the log of the calls made so far.      *)
(* A second specification, SpecBind, translates one use of the overloaded  *)
(* StyleColor / StyleVar macros.                                           *)
(***************************************************************************)
EXTENDS Integers, Sequences, FiniteSets, TLC

\* ------------------------------------------------------------------ bounds
\* The size of the function body that runs: the constructs (with_*, set_*),
\* ordinary statements (ImGui::Text ...) and plain blocks or loops in it.
\* MaxSize bounds a body written with the mixed vocabulary, MaxSoloSize a
\* body written with one entry of the table only.
MaxSize == 3
MaxSoloSize == 2

\* --------------------------------------------------------- the two headers
\* src/imgui_sugar.hpp (namespace sugar, guard_bool + guard_void) and
\* src/unnamed/part_000 (namespace ImGuiSugar, BooleanGuard + expression lambda)
Variants == {"sugar", "ImGuiSugar"}

\* ------------------------------------------------------ [SECTION] ImGui DSL
\* One row per macro: the generating macro, BEGIN, END and ALWAYS.
Row(gen, begin, end, always) ==
    [gen |-> gen, begin |-> begin, end |-> end, always |-> always]

ScopedBool ==
    [with_Window             |-> Row("SCOPED_BOOL", "Begin",                   "End",               TRUE),
     with_Child              |-> Row("SCOPED_BOOL", "BeginChild",              "EndChild",          TRUE),
     with_ChildFrame         |-> Row("SCOPED_BOOL", "BeginChildFrame",         "EndChildFrame",     TRUE),
     with_Combo              |-> Row("SCOPED_BOOL", "BeginCombo",              "EndCombo",          FALSE),
     with_ListBox            |-> Row("SCOPED_BOOL", "BeginListBox",            "EndListBox",        FALSE),
     with_MenuBar            |-> Row("SCOPED_BOOL", "BeginMenuBar",            "EndMenuBar",        FALSE),
     with_MainMenuBar        |-> Row("SCOPED_BOOL", "BeginMainMenuBar",        "EndMainMenuBar",    FALSE),
     with_Menu               |-> Row("SCOPED_BOOL", "BeginMenu",               "EndMenu",           FALSE),
     with_Popup              |-> Row("SCOPED_BOOL", "BeginPopup",              "EndPopup",          FALSE),
     with_PopupModal         |-> Row("SCOPED_BOOL", "BeginPopupModal",         "EndPopup",          FALSE),
     with_PopupContextItem   |-> Row("SCOPED_BOOL", "BeginPopupContextItem",   "EndPopup",          FALSE),
     with_PopupContextWindow |-> Row("SCOPED_BOOL", "BeginPopupContextWindow", "EndPopup",          FALSE),
     with_PopupContextVoid   |-> Row("SCOPED_BOOL", "BeginPopupContextVoid",   "EndPopup",          FALSE),
     with_Table              |-> Row("SCOPED_BOOL", "BeginTable",              "EndTable",          FALSE),
     with_TabBar             |-> Row("SCOPED_BOOL", "BeginTabBar",             "EndTabBar",         FALSE),
     with_TabItem            |-> Row("SCOPED_BOOL", "BeginTabItem",            "EndTabItem",        FALSE),
     with_DragDropSource     |-> Row("SCOPED_BOOL", "BeginDragDropSource",     "EndDragDropSource", FALSE),
     with_DragDropTarget     |-> Row("SCOPED_BOOL", "BeginDragDropTarget",     "EndDragDropTarget", FALSE),
     with_TreeNode           |-> Row("SCOPED_BOOL", "TreeNode",                "TreePop",           FALSE),
     with_TreeNodeV          |-> Row("SCOPED_BOOL", "TreeNodeV",               "TreePop",           FALSE),
     with_TreeNodeEx         |-> Row("SCOPED_BOOL", "TreeNodeEx",              "TreePop",           FALSE),
     with_TreeNodeExV        |-> Row("SCOPED_BOOL", "TreeNodeExV",             "TreePop",           FALSE)]

ScopedVoid ==
    [with_Group              |-> Row("SCOPED_VOID_0", "BeginGroup",             "EndGroup",              TRUE),
     with_Tooltip            |-> Row("SCOPED_VOID_0", "BeginTooltip",           "EndTooltip",            TRUE),
     with_Font               |-> Row("SCOPED_VOID_N", "PushFont",               "PopFont",               TRUE),
     with_AllowKeyboardFocus |-> Row("SCOPED_VOID_N", "PushAllowKeyboardFocus", "PopAllowKeyboardFocus", TRUE),
     with_ButtonRepeat       |-> Row("SCOPED_VOID_N", "PushButtonRepeat",       "PopButtonRepeat",       TRUE),
     with_ItemWidth          |-> Row("SCOPED_VOID_N", "PushItemWidth",          "PopItemWidth",          TRUE),
     with_TextWrapPos        |-> Row("SCOPED_VOID_N", "PushTextWrapPos",        "PopTextWrapPos",        TRUE),
     with_ID                 |-> Row("SCOPED_VOID_N", "PushID",                 "PopID",                 TRUE),
     with_ClipRect           |-> Row("SCOPED_VOID_N", "PushClipRect",           "PopClipRect",           TRUE),
     with_TextureID          |-> Row("SCOPED_VOID_N", "PushTextureID",          "PopTextureID",          TRUE)]

ParentScoped ==
    [set_Font                |-> Row("PARENT_SCOPED_VOID_N", "PushFont",               "PopFont",               TRUE),
     set_AllowKeyboardFocus  |-> Row("PARENT_SCOPED_VOID_N", "PushAllowKeyboardFocus", "PopAllowKeyboardFocus", TRUE),
     set_ButtonRepeat        |-> Row("PARENT_SCOPED_VOID_N", "PushButtonRepeat",       "PopButtonRepeat",       TRUE),
     set_ItemWidth           |-> Row("PARENT_SCOPED_VOID_N", "PushItemWidth",          "PopItemWidth",          TRUE),
     set_TextWrapPos         |-> Row("PARENT_SCOPED_VOID_N", "PushTextWrapPos",        "PopTextWrapPos",        TRUE),
     set_ID                  |-> Row("PARENT_SCOPED_VOID_N", "PushID",                 "PopID",                 TRUE),
     set_ClipRect            |-> Row("PARENT_SCOPED_VOID_N", "PushClipRect",           "PopClipRect",           TRUE),
     set_TextureID           |-> Row("PARENT_SCOPED_VOID_N", "PushTextureID",          "PopTextureID",          TRUE)]

\* Special case (overloaded functions StyleColor and StyleVar); END is the
\* wrapper sugar::PopStyleColor / sugar::PopStyleVar.
StyleEntries ==
    [set_StyleColor          |-> Row("PARENT_SCOPED_VOID_N", "PushStyleColor", "sugar::PopStyleColor", TRUE),
     set_StyleVar            |-> Row("PARENT_SCOPED_VOID_N", "PushStyleVar",   "sugar::PopStyleVar",   TRUE),
     with_StyleColor         |-> Row("SCOPED_VOID_N",        "PushStyleColor", "sugar::PopStyleColor", TRUE),
     with_StyleVar           |-> Row("SCOPED_VOID_N",        "PushStyleVar",   "sugar::PopStyleVar",   TRUE)]

\* Non RAII
NonRaii ==
    [with_CollapsingHeader   |-> Row("NON_RAII", "CollapsingHeader", "", FALSE),
     with_MenuItem           |-> Row("NON_RAII", "MenuItem",         "", FALSE)]

Entries == ScopedBool @@ ScopedVoid @@ ParentScoped @@ StyleEntries @@ NonRaii

EntryNames == DOMAIN Entries

\* sugar::PopStyleColor / sugar::PopStyleVar: the ImGui function an END names
PopWrapper(end) ==
    CASE end = "sugar::PopStyleColor" -> "PopStyleColor"
      [] end = "sugar::PopStyleVar"   -> "PopStyleVar"
      [] OTHER                        -> end

\* with_MenuItem exists in the ImGuiSugar header only
Available(v) == IF v = "sugar" THEN EntryNames \ {"with_MenuItem"} ELSE EntryNames

\* mutant: the set_* rows generated with the self-scoped macro
GenOf_set_as_with(e) ==
    IF Entries[e].gen = "PARENT_SCOPED_VOID_N" THEN "SCOPED_VOID_N" ELSE Entries[e].gen

\* the macro arguments of an entry's row
GenOf(e) == Entries[e].gen
BeginOf(e) == Entries[e].begin
\* mutant: an END named after its BEGIN
EndOf_named_after_begin(e) ==
    IF e = "with_PopupContextVoid" THEN "EndPopupContextVoid" ELSE Entries[e].end

EndOf(e) == Entries[e].end
AlwaysOf(e) == Entries[e].always

BoolGens == {"SCOPED_BOOL"}
VoidGens == {"SCOPED_VOID_N", "SCOPED_VOID_0"}
ParentGens == {"PARENT_SCOPED_VOID_N"}

\* -------------------------------------------- README: scope definition tables
\* Begin Call and End Call documented for each sugar function ("" = none).
Doc(begin, end) == [begin |-> begin, end |-> end]

Documented ==
    [with_Window             |-> Doc("Begin",                   "End"),
     with_Child              |-> Doc("BeginChild",              "EndChild"),
     with_ChildFrame         |-> Doc("BeginChildFrame",         "EndChildFrame"),
     with_Combo              |-> Doc("BeginCombo",              "EndCombo"),
     with_ListBox            |-> Doc("BeginListBox",            "EndListBox"),
     with_MenuBar            |-> Doc("BeginMenuBar",            "EndMenuBar"),
     with_MainMenuBar        |-> Doc("BeginMainMenuBar",        "EndMainMenuBar"),
     with_Menu               |-> Doc("BeginMenu",               "EndMenu"),
     with_Popup              |-> Doc("BeginPopup",              "EndPopup"),
     with_PopupModal         |-> Doc("BeginPopupModal",         "EndPopup"),
     with_PopupContextItem   |-> Doc("BeginPopupContextItem",   "EndPopup"),
     with_PopupContextWindow |-> Doc("BeginPopupContextWindow", "EndPopup"),
     with_PopupContextVoid   |-> Doc("BeginPopupContextVoid",   "EndPopup"),
     with_Table              |-> Doc("BeginTable",              "EndTable"),
     with_TabBar             |-> Doc("BeginTabBar",             "EndTabBar"),
     with_TabItem            |-> Doc("BeginTabItem",            "EndTabItem"),
     with_DragDropSource     |-> Doc("BeginDragDropSource",     "EndDragDropSource"),
     with_DragDropTarget     |-> Doc("BeginDragDropTarget",     "EndDragDropTarget"),
     with_Group              |-> Doc("BeginGroup",              "EndGroup"),
     with_Tooltip            |-> Doc("BeginTooltip",            "EndTooltip"),
     with_Font               |-> Doc("PushFont",                "PopFont"),
     with_AllowKeyboardFocus |-> Doc("PushAllowKeyboardFocus",  "PopAllowKeyboardFocus"),
     with_ButtonRepeat       |-> Doc("PushButtonRepeat",        "PopButtonRepeat"),
     with_ItemWidth          |-> Doc("PushItemWidth",           "PopItemWidth"),
     with_TextWrapPos        |-> Doc("PushTextWrapPos",         "PopTextWrapPos"),
     with_ID                 |-> Doc("PushID",                  "PopID"),
     with_ClipRect           |-> Doc("PushClipRect",            "PopClipRect"),
     with_TextureID          |-> Doc("PushTextureID",           "PopTextureID"),
     with_StyleColor         |-> Doc("PushStyleColor",          "PopStyleColor"),
     with_StyleVar           |-> Doc("PushStyleVar",            "PopStyleVar"),
     with_TreeNode           |-> Doc("TreeNode",                "TreePop"),
     with_TreeNodeV          |-> Doc("TreeNodeV",               "TreePop"),
     with_TreeNodeEx         |-> Doc("TreeNodeEx",              "TreePop"),
     with_TreeNodeExV        |-> Doc("TreeNodeExV",             "TreePop"),
     with_CollapsingHeader   |-> Doc("CollapsingHeader",        ""),
     set_StyleColor          |-> Doc("PushStyleColor",          "PopStyleColor"),
     set_StyleVar            |-> Doc("PushStyleVar",            "PopStyleVar")]

\* ------------------------------------------------ ImGui (the collaborator)
\* Begin, BeginChild and BeginChildFrame need their End whatever they return;
\* the other bool-returning begins need it only after returning true; the
\* void-returning begins and pushes always need it.
UnconditionalEnd == {"Begin", "BeginChild", "BeginChildFrame"}

\* CollapsingHeader and MenuItem open nothing
NoEnd == {"CollapsingHeader", "MenuItem"}

NeedsEnd(begin, result) ==
    /\ begin \notin NoEnd
    /\ \/ result = "void"
       \/ result = "true"
       \/ result = "false" /\ begin \in UnconditionalEnd

\* the End/Pop that closes what a Begin/Push opened
Closes(end, begin) ==
    \E d \in DOMAIN Documented :
        Documented[d].begin = begin /\ Documented[d].end = end /\ end /= ""

\* ImGui::BEGIN(...): one region more on ImGui's stack when it needs an End
ImGuiBegin(stack, begin, result, id) ==
    IF NeedsEnd(begin, result) THEN Append(stack, [fn |-> begin, id |-> id]) ELSE stack

\* ImGui::END(): closes the innermost region
ImGuiEndOk(stack, end) ==
    stack /= << >> /\ Closes(end, stack[Len(stack)].fn)

ImGuiEnd(stack, end) ==
    IF ImGuiEndOk(stack, end) THEN SubSeq(stack, 1, Len(stack) - 1) ELSE stack

\* ----------------------------------- [SECTION] RAII guard implementations
\* Each member function is modelled by what it stores or returns and by the
\* end-functions it calls, in order.

\* guard_bool<AlwaysCallEnd>(state, end) / BooleanGuard<AlwaysCallEnd>(state, end)
guard_bool(AlwaysCallEnd, state, end) ==
    [type |-> "guard_bool", always |-> AlwaysCallEnd, state |-> state, end |-> end]

\* the constructor's body is empty
guard_bool_ctor_ends(g) == << >>

\* mutants of the destructor: the policy alone, the state alone, no condition
guard_bool_dtor_ends_always_only(g) == IF g.always THEN << g.end >> ELSE << >>

guard_bool_dtor_ends_state_only(g) == IF g.state THEN << g.end >> ELSE << >>

guard_bool_dtor_ends_unconditional(g) == << g.end >>

\* ~guard_bool / ~BooleanGuard: if (AlwaysCallEnd || _state) { _end(); }
guard_bool_dtor_ends(g) == IF g.always \/ g.state THEN << g.end >> ELSE << >>

\* mutant: a conversion that is constantly true, as guard_void's
guard_bool_operator_bool_true(g) == TRUE

\* operator bool: return _state;
guard_bool_operator_bool(g) == g.state

\* mutant: a conversion that releases
guard_bool_operator_bool_ends_release(g) == << g.end >>

guard_bool_operator_bool_ends(g) == << >>

\* guard_void<Args...>(begin, end, args...): keeps _end only
guard_void(end) == [type |-> "guard_void", end |-> end]

\* the constructor's body calls begin (see the actions) and no end-function
guard_void_ctor_ends(g) == << >>

\* mutant: a destructor that releases nothing
guard_void_dtor_ends_none(g) == << >>

\* ~guard_void: { _end(); }
guard_void_dtor_ends(g) == << g.end >>

\* operator bool: constexpr, return true;
guard_void_operator_bool(g) == TRUE

guard_void_operator_bool_ends(g) == << >>

CtorEnds(g) ==
    IF g.type = "guard_void" THEN guard_void_ctor_ends(g) ELSE guard_bool_ctor_ends(g)

DtorEnds(g) ==
    IF g.type = "guard_void" THEN guard_void_dtor_ends(g) ELSE guard_bool_dtor_ends(g)

OperatorBool(g) ==
    IF g.type = "guard_void" THEN guard_void_operator_bool(g)
    ELSE guard_bool_operator_bool(g)

OperatorBoolEnds(g) ==
    IF g.type = "guard_void" THEN guard_void_operator_bool_ends(g)
    ELSE guard_bool_operator_bool_ends(g)

\* IMGUI_SUGAR_ES(FN, ...): [&]() -> bool { FN(args); return true; }()
IMGUI_SUGAR_ES == TRUE

\* The guard a void entry declares: sugar::guard_void, or in the ImGuiSugar
\* header BooleanGuard<true> over the expression lambda.
VoidGuard(v, end) ==
    IF v = "sugar" THEN guard_void(end) ELSE guard_bool(TRUE, IMGUI_SUGAR_ES, end)

\* Where BEGIN is called: guard_void's constructor calls it and is noexcept,
\* so a throwing BEGIN ends in std::terminate; everywhere else BEGIN is
\* evaluated in the initializer, before any constructor, and the exception
\* propagates.
BeginInsideNoexceptCtor(v, gen) ==
    v = "sugar" /\ gen \in VoidGens \cup ParentGens

\* ------------------------------------------------------------------ state
VARIABLES
    variant,   \* the header in use
    vocab,     \* the constructs the function body is written with
    scopes,    \* open lexical scopes, outermost first
    imgui,     \* ImGui's stack of regions that still need their End/Pop
    unmatched, \* an End/Pop was called that closes nothing
    log,       \* the calls made so far, in order
    pc,        \* "run", "leave" (scopes being left), "done", "terminated"
    target,    \* while leaving: the number of scopes that stay open
    cause,     \* why the scopes are being left
    origin,    \* the scope control was in when it started to leave
    nextId,    \* the next construct's number
    stmts,     \* ordinary statements executed
    blocks,    \* plain blocks and loop bodies opened
    site,      \* SpecBind: the use of an overloaded macro being translated
    inst,      \* SpecBind: what the macro expanded to
    line,      \* SpecNames: the source line being written
    names,     \* SpecNames: the guard names declared in each open scope
    twin       \* SpecTwin: the same user code run with each header

vars == <<variant, vocab, scopes, imgui, unmatched, log, pc, target, cause,
          origin, nextId, stmts, blocks, site, inst, line, names, twin>>

\* The constructs of the README example: an always-release window, a void
\* self-scoped group and a parent-scoped style colour.
Mixed == {"with_Window", "with_Group", "set_StyleColor"}

\* a scope: its number, its kind, the guard of the if statement that opened
\* it (with_*), and the guards declared in its block (set_*) in order
Scope(sid, kind, own) == [sid |-> sid, kind |-> kind, own |-> own, locals |-> << >>]

\* a guard object: the construct's number, the scope it is declared in, the
\* entry it comes from and the guard itself
Obj(id, sc, e, g) == [id |-> id, sc |-> sc, entry |-> e, g |-> g]

\* a logged call: what happened, the construct's number, its entry, the ImGui
\* function called, what a begin returned, and the scope it happened in
Event(ev, id, e, fn, r, sc) ==
    [ev |-> ev, id |-> id, e |-> e, fn |-> fn, r |-> r, sc |-> sc]

Top == scopes[Len(scopes)]

\* scope numbers: a with_* scope has its construct's number (positive), the
\* function body is 0, and plain blocks and loop bodies are negative

\* what the calls act on
Lib(stack, um, lg) == [imgui |-> stack, unmatched |-> um, log |-> lg]

\* guard x calls the end-functions of ends, in order
RECURSIVE CallEnds(_, _, _)
CallEnds(ends, x, st) ==
    IF ends = << >> THEN st
    ELSE LET fn == PopWrapper(Head(ends))
         IN  CallEnds(Tail(ends), x,
                 Lib(ImGuiEnd(st.imgui, fn),
                     st.unmatched \/ ~ImGuiEndOk(st.imgui, fn),
                     Append(st.log, Event("end", x.id, x.entry, fn, "", x.sc))))

\* __VA_ARGS__ of the construct numbered id: the arguments its user wrote
VA_ARGS(id) == << "args", id >>

\* mutant: a constructor that calls begin without its arguments
guard_void_forward_none(args) == << >>

\* begin(std::forward<Args>(args)...) in guard_void's constructor
guard_void_forward(args) == args

\* what BEGIN is called with: __VA_ARGS__ itself in ImGui::BEGIN(__VA_ARGS__)
\* and in IMGUI_SUGAR_ES's FN(__VA_ARGS__), the forwarded pack in guard_void
PassedArgs(v, e, args) ==
    IF BeginInsideNoexceptCtor(v, GenOf(e)) THEN guard_void_forward(args) ELSE args

\* ImGui::BEGIN(...) returns r
CallBegin(id, e, r, sc, st) ==
    Lib(ImGuiBegin(st.imgui, BeginOf(e), r, id), st.unmatched,
        Append(st.log, Event("begin", id, e, BeginOf(e), r, sc)
                       @@ [args |-> PassedArgs(variant, e, VA_ARGS(id))]))

SetLib(st) ==
    /\ imgui' = st.imgui
    /\ unmatched' = st.unmatched
    /\ log' = st.log

Init ==
    /\ variant \in Variants
    /\ vocab \in {Mixed} \cup {{e} : e \in Available(variant)}
    /\ scopes = << Scope(0, "fn", << >>) >>
    /\ imgui = << >>
    /\ unmatched = FALSE
    /\ log = << >>
    /\ pc = "run"
    /\ target = 0
    /\ cause = "none"
    /\ origin = 0
    /\ nextId = 1
    /\ stmts = 0
    /\ blocks = 0
    /\ site = "none"
    /\ inst = "none"
    /\ line = 1
    /\ names = << >>
    /\ twin = "none"

BoolResults == {"true", "false", "throw"}
VoidResults == {"void", "throw"}

Size == (nextId - 1) + stmts + blocks

Limit == IF vocab = Mixed THEN MaxSize ELSE MaxSoloSize

CanUse(e, gens) ==
    /\ pc = "run"
    /\ Size < Limit
    /\ e \in vocab
    /\ GenOf(e) \in gens

\* an exception leaves every open scope; its handler is in the caller
Propagate ==
    /\ pc' = "leave"
    /\ target' = 0
    /\ cause' = "throw"
    /\ origin' = Top.sid

\* BEGIN throws: nothing is constructed
BeginThrows(id, e, terminate) ==
    /\ log' = Append(log, Event("beginthrow", id, e, BeginOf(e), "throw", Top.sid))
    /\ IF terminate
       THEN /\ pc' = "terminated"
            /\ UNCHANGED <<target, cause, origin>>
       ELSE Propagate
    /\ UNCHANGED <<scopes, imgui, unmatched>>

\* the if statement of a with_* macro, after BEGIN has returned: the guard
\* (if any) is constructed and converted to bool; the body runs when the
\* condition is true and is skipped otherwise; the condition's scope ends
\* with the statement
IfStatement(id, e, own, cond, st) ==
    /\ scopes' = Append(scopes, Scope(id, "with", own))
    /\ IF cond
       THEN /\ SetLib(Lib(st.imgui, st.unmatched,
                          Append(st.log, Event("body", id, e, "", "", id))))
            /\ UNCHANGED <<pc, target, cause, origin>>
       ELSE /\ SetLib(Lib(st.imgui, st.unmatched,
                          Append(st.log, Event("skip", id, e, "", "", id))))
            /\ pc' = "leave"
            /\ target' = Len(scopes)
            /\ cause' = "skip"
            /\ origin' = id

\* if (const guard _ui_scope_guard = {...}): construction, then conversion
GuardedIf(id, e, g, st) ==
    LET x == Obj(id, Top.sid, e, g)
    IN  IfStatement(id, e, << x >>, OperatorBool(g),
                    CallEnds(OperatorBoolEnds(g), x, CallEnds(CtorEnds(g), x, st)))

\* _SUGAR_SCOPED_BOOL(BEGIN, END, ALWAYS, ...)
ScopedBoolUse(e, r) ==
    /\ CanUse(e, BoolGens)
    /\ r \in BoolResults
    /\ nextId' = nextId + 1
    /\ IF r = "throw"
       THEN BeginThrows(nextId, e, FALSE)
       ELSE GuardedIf(nextId, e, guard_bool(AlwaysOf(e), r = "true", EndOf(e)),
                      CallBegin(nextId, e, r, Top.sid, Lib(imgui, unmatched, log)))
    /\ UNCHANGED <<variant, vocab, stmts, blocks, site, inst, line, names, twin>>

\* _SUGAR_SCOPED_VOID_N / _SUGAR_SCOPED_VOID_0 / with_StyleColor / with_StyleVar
ScopedVoidUse(e, r) ==
    /\ CanUse(e, VoidGens)
    /\ r \in VoidResults
    /\ nextId' = nextId + 1
    /\ IF r = "throw"
       THEN BeginThrows(nextId, e, BeginInsideNoexceptCtor(variant, GenOf(e)))
       ELSE GuardedIf(nextId, e, VoidGuard(variant, EndOf(e)),
                      CallBegin(nextId, e, r, Top.sid, Lib(imgui, unmatched, log)))
    /\ UNCHANGED <<variant, vocab, stmts, blocks, site, inst, line, names, twin>>

\* _SUGAR_PARENT_SCOPED_VOID_N / set_StyleColor / set_StyleVar: a plain
\* declaration in the enclosing block
ParentScopedUse(e, r) ==
    /\ CanUse(e, ParentGens)
    /\ r \in VoidResults
    /\ nextId' = nextId + 1
    /\ IF r = "throw"
       THEN BeginThrows(nextId, e, BeginInsideNoexceptCtor(variant, GenOf(e)))
       ELSE LET g == VoidGuard(variant, EndOf(e))
                x == Obj(nextId, Top.sid, e, g)
            IN  /\ SetLib(CallEnds(CtorEnds(g), x,
                            CallBegin(nextId, e, r, Top.sid, Lib(imgui, unmatched, log))))
                /\ scopes' = [scopes EXCEPT ![Len(scopes)].locals = Append(@, x)]
                /\ UNCHANGED <<pc, target, cause, origin>>
    /\ UNCHANGED <<variant, vocab, stmts, blocks, site, inst, line, names, twin>>

\* with_CollapsingHeader / with_MenuItem: if (ImGui::X(...)), no guard
NonRaiiUse(e, r) ==
    /\ CanUse(e, {"NON_RAII"})
    /\ r \in BoolResults
    /\ nextId' = nextId + 1
    /\ IF r = "throw"
       THEN BeginThrows(nextId, e, FALSE)
       ELSE IfStatement(nextId, e, << >>, r = "true",
                        CallBegin(nextId, e, r, Top.sid, Lib(imgui, unmatched, log)))
    /\ UNCHANGED <<variant, vocab, stmts, blocks, site, inst, line, names, twin>>

\* an ordinary statement of the innermost block
Stmt ==
    /\ pc = "run"
    /\ Size < Limit
    /\ stmts' = stmts + 1
    /\ log' = Append(log, Event("stmt", 0, "", "", "", Top.sid))
    /\ UNCHANGED <<variant, vocab, scopes, imgui, unmatched, pc, target, cause,
                   origin, nextId, blocks, site, inst, line, names, twin>>

\* a compound statement or a loop body opens
OpenBlock(kind) ==
    /\ pc = "run"
    /\ Size < Limit
    /\ kind \in {"block", "loop"}
    /\ blocks' = blocks + 1
    /\ scopes' = Append(scopes, Scope(-(blocks + 1), kind, << >>))
    /\ UNCHANGED <<variant, vocab, imgui, unmatched, log, pc, target, cause,
                   origin, nextId, stmts, site, inst, line, names, twin>>

\* control leaves the innermost scopes; keep of them stay open
Leave(why, keep) ==
    /\ pc = "run"
    /\ pc' = "leave"
    /\ target' = keep
    /\ cause' = why
    /\ origin' = Top.sid
    /\ UNCHANGED <<variant, vocab, scopes, imgui, unmatched, log, nextId, stmts,
                   blocks, site, inst, line, names, twin>>

\* the innermost block runs to its closing brace
CloseBlock == Leave("normal", Len(scopes) - 1)

\* throw in a body; the handler is in the caller
Throw == Leave("throw", 0)

\* return in a body
Return == Leave("return", 0)

LoopDepths == {i \in 1..Len(scopes) : scopes[i].kind = "loop"}

InnermostLoop == CHOOSE i \in LoopDepths : \A j \in LoopDepths : j <= i

\* break or continue in a body inside a loop: the loop body is left
BreakContinue(how) ==
    /\ how \in {"break", "continue"}
    /\ LoopDepths /= {}
    /\ Leave(how, InnermostLoop - 1)

\* after a scope has gone: leaving goes on, or control is back in a block,
\* or the function has returned
Settle(open) ==
    IF open > target
    THEN UNCHANGED <<pc, target, cause, origin>>
    ELSE /\ pc' = IF open = 0 THEN "done" ELSE "run"
         /\ target' = 0
         /\ cause' = "none"
         /\ origin' = 0

\* a guard's destructor runs
Destructor(x) == SetLib(CallEnds(DtorEnds(x.g), x, Lib(imgui, unmatched, log)))

\* the scope being left destroys the guards declared in its block, last first
DestroyLocal ==
    /\ pc = "leave"
    /\ Len(scopes) > target
    /\ Top.locals /= << >>
    /\ LET n == Len(Top.locals)
       IN  /\ Destructor(Top.locals[n])
           /\ scopes' = [scopes EXCEPT ![Len(scopes)].locals = SubSeq(@, 1, n - 1)]
    /\ UNCHANGED <<variant, vocab, pc, target, cause, origin, nextId, stmts,
                   blocks, site, inst, line, names, twin>>

\* the if statement of a with_* ends: its condition's guard is destroyed
DestroyOwn ==
    /\ pc = "leave"
    /\ Len(scopes) > target
    /\ Top.locals = << >>
    /\ Top.own /= << >>
    /\ Destructor(Top.own[1])
    /\ scopes' = SubSeq(scopes, 1, Len(scopes) - 1)
    /\ Settle(Len(scopes) - 1)
    /\ UNCHANGED <<variant, vocab, nextId, stmts, blocks, site, inst, line, names, twin>>

\* a scope without a guard of its own ends
PopScope ==
    /\ pc = "leave"
    /\ Len(scopes) > target
    /\ Top.locals = << >>
    /\ Top.own = << >>
    /\ scopes' = SubSeq(scopes, 1, Len(scopes) - 1)
    /\ Settle(Len(scopes) - 1)
    /\ UNCHANGED <<variant, vocab, imgui, unmatched, log, nextId, stmts, blocks,
                   site, inst, line, names, twin>>

Next ==
    \/ \E e \in EntryNames, r \in BoolResults : ScopedBoolUse(e, r)
    \/ \E e \in EntryNames, r \in VoidResults : ScopedVoidUse(e, r)
    \/ \E e \in EntryNames, r \in VoidResults : ParentScopedUse(e, r)
    \/ \E e \in EntryNames, r \in BoolResults : NonRaiiUse(e, r)
    \/ Stmt
    \/ \E k \in {"block", "loop"} : OpenBlock(k)
    \/ CloseBlock
    \/ Throw
    \/ Return
    \/ \E h \in {"break", "continue"} : BreakContinue(h)
    \/ DestroyLocal
    \/ DestroyOwn
    \/ PopScope

Spec == Init /\ [][Next]_vars

\* ------------------------------------------------------------- the claims
Positions(ev, id) == {i \in DOMAIN log : log[i].ev = ev /\ log[i].id = id}

BeginEvents == {i \in DOMAIN log : log[i].ev = "begin"}

OpenSids == {scopes[i].sid : i \in DOMAIN scopes}

\* the with_* entries that declare a guard
WithGuarded ==
    DOMAIN ScopedBool \cup DOMAIN ScopedVoid \cup {"with_StyleColor", "with_StyleVar"}

AlwaysRelease == {"with_Window", "with_Child", "with_ChildFrame"}

ConditionalRelease ==
    {"with_Combo", "with_ListBox", "with_MenuBar", "with_MainMenuBar", "with_Menu",
     "with_Popup", "with_PopupModal", "with_PopupContextItem",
     "with_PopupContextWindow", "with_PopupContextVoid", "with_Table",
     "with_TabBar", "with_TabItem", "with_DragDropSource", "with_DragDropTarget",
     "with_TreeNode", "with_TreeNodeV", "with_TreeNodeEx", "with_TreeNodeExV"}

\* C1: a self-scoped construct whose begin returned true (or returns nothing)
\* has run its body exactly once; its end-function has not been called while
\* its scope is open, and once the scope has been left, however it was left,
\* it has been called exactly once, after everything that happened in the body.
C1_BodyOnceThenEndOnce ==
    \A i \in BeginEvents :
        (log[i].e \in WithGuarded /\ log[i].r \in {"true", "void"}) =>
            LET id == log[i].id
                E  == Positions("end", id)
            IN  /\ Cardinality(Positions("body", id)) = 1
                /\ Positions("skip", id) = {}
                /\ IF id \in OpenSids
                   THEN E = {}
                   ELSE /\ Cardinality(E) = 1
                        /\ \A j \in E : \A k \in DOMAIN log : log[k].sc = id => k < j

\* C1 witness: an exception has left the body of a self-scoped construct whose
\* begin returned true, a statement ran in that body, and its end was called
C1_Witness ==
    /\ pc = "leave"
    /\ cause = "throw"
    /\ \E i \in BeginEvents :
          /\ log[i].e \in WithGuarded
          /\ log[i].r = "true"
          /\ log[i].id \notin OpenSids
          /\ Positions("end", log[i].id) /= {}
          /\ \E k \in DOMAIN log : log[k].ev = "stmt" /\ log[k].sc = log[i].id

\* C2: a conditional-release construct whose begin returned false never runs
\* its body and never calls its end-function.
C2_ConditionalFalseNoEnd ==
    \A i \in BeginEvents :
        (log[i].e \in ConditionalRelease /\ log[i].r = "false") =>
            /\ Positions("body", log[i].id) = {}
            /\ Positions("end", log[i].id) = {}

\* C2 witness: such a construct's guard has been destroyed
C2_Witness ==
    \E i \in BeginEvents :
        /\ log[i].e \in ConditionalRelease
        /\ log[i].r = "false"
        /\ log[i].id \notin OpenSids

\* C3: an always-release construct whose begin returned false never runs its
\* body, and its end-function is called exactly once, when its scope ends.
C3_AlwaysFalseEndOnce ==
    \A i \in BeginEvents :
        (log[i].e \in AlwaysRelease /\ log[i].r = "false") =>
            /\ Positions("body", log[i].id) = {}
            /\ Cardinality(Positions("end", log[i].id)) =
                  IF log[i].id \in OpenSids THEN 0 ELSE 1

\* C3 witness: such a construct's guard has been destroyed
C3_Witness ==
    \E i \in BeginEvents :
        /\ log[i].e \in AlwaysRelease
        /\ log[i].r = "false"
        /\ log[i].id \notin OpenSids
        /\ log[i + 1].ev = "skip"

ParentNames == DOMAIN ParentScoped \cup {"set_StyleColor", "set_StyleVar"}

\* scope s is open and control has not reached its close
Running(s) ==
    \E d \in DOMAIN scopes : scopes[d].sid = s /\ (pc = "leave" => d <= target)

\* C4: the end-function of a parent-scoped construct is not called while the
\* enclosing block runs (so not when the next statement starts); once that
\* block has been closed it has been called exactly once, after every statement
\* and construct of the block that follows the set_*.
C4_ParentScopedEndAtBlockClose ==
    \A i \in BeginEvents :
        log[i].e \in ParentNames =>
            LET s == log[i].sc
                E == Positions("end", log[i].id)
            IN  /\ Running(s) => E = {}
                /\ s \notin OpenSids => Cardinality(E) = 1
                /\ Cardinality(E) <= 1
                /\ \A j \in E : \A k \in DOMAIN log :
                      (k > i /\ log[k].sc = s /\ log[k].ev \in {"stmt", "begin", "beginthrow"})
                          => k < j

\* C4 witness: a statement ran in the block after a set_*, the block was then
\* closed, and the end-function was called after the statement
C4_Witness ==
    \E i \in BeginEvents :
        /\ log[i].e \in ParentNames
        /\ log[i].sc \notin OpenSids
        /\ \E k \in DOMAIN log, j \in Positions("end", log[i].id) :
              /\ log[k].ev = "stmt"
              /\ log[k].sc = log[i].sc
              /\ i < k
              /\ k < j

\* a guard of this entry, after this begin result, has a release to make
Releases(e, r) == r \in {"true", "void"} \/ e \in AlwaysRelease

\* C5: of two self-scoped constructs, one nested in the other's body, the inner
\* one's end-function is called before the outer one's: A, B, C nested in this
\* order end in the order C, B, A, on normal exit and on an exception.
C5_NestedReleaseInReverse ==
    \A i, j \in BeginEvents :
        ( /\ log[i].e \in WithGuarded
          /\ log[j].e \in WithGuarded
          /\ log[j].sc = log[i].id
          /\ Releases(log[j].e, log[j].r) ) =>
            /\ i < j
            /\ \A p \in Positions("end", log[i].id) :
                  \E q \in Positions("end", log[j].id) : j < q /\ q < p

\* C5 witness: A, B, C nested, an exception thrown in C's body, and the last
\* three calls are the ends of C, B, A
C5_Witness ==
    /\ pc = "leave"
    /\ cause = "throw"
    /\ \E a, b, c \in BeginEvents :
          /\ {log[a].e, log[b].e, log[c].e} \subseteq WithGuarded
          /\ log[b].sc = log[a].id
          /\ log[c].sc = log[b].id
          /\ origin = log[c].id
          /\ Len(log) >= 3
          /\ log[Len(log) - 2].ev = "end" /\ log[Len(log) - 2].id = log[c].id
          /\ log[Len(log) - 1].ev = "end" /\ log[Len(log) - 1].id = log[b].id
          /\ log[Len(log)].ev = "end" /\ log[Len(log)].id = log[a].id

\* the guards that exist, outermost scope first, in order of declaration
RECURSIVE LiveUpTo(_)
LiveUpTo(d) ==
    IF d = 0 THEN << >> ELSE LiveUpTo(d - 1) \o scopes[d].own \o scopes[d].locals

Live == LiveUpTo(Len(scopes))

WillRelease(x) == DtorEnds(x.g) /= << >>

Owed == SelectSeq(Live, WillRelease)

Stopped == pc \in {"done", "terminated"}

\* C6: ImGui's stack is balanced: while the program runs its open regions are
\* exactly those the existing guards will release, in order of acquisition
\* and each with the end-function that closes it; no end-function is called
\* that closes nothing; and once the program has stopped, however the guarded
\* bodies were left, every begin that needs an end has had it: the stack is
\* as deep as on entry.
C6_StackBalanced ==
    /\ ~unmatched
    /\ Len(imgui) = Len(Owed)
    /\ \A n \in DOMAIN imgui :
          /\ imgui[n].id = Owed[n].id
          /\ DtorEnds(Owed[n].g) = << Owed[n].g.end >>
          /\ Closes(PopWrapper(Owed[n].g.end), imgui[n].fn)
    /\ Stopped => imgui = << >>

\* C7: an end-function is never called twice for one begin call, and never
\* while the guard bound to that begin call still exists.
C7_EndAtMostOnceAtScopeExit ==
    /\ \A i \in BeginEvents : Cardinality(Positions("end", log[i].id)) <= 1
    /\ \A n \in DOMAIN Live : Positions("end", Live[n].id) = {}

\* C7 witness: a guard_bool and a guard_void were constructed, the guard_bool
\* was converted to true, both were destroyed and each released once
C7_Witness ==
    /\ variant = "sugar"
    /\ Live = << >>
    /\ \E i, j \in BeginEvents :
          /\ GenOf(log[i].e) \in BoolGens /\ log[i].r = "true"
          /\ GenOf(log[j].e) \in VoidGens \cup ParentGens
          /\ Cardinality(Positions("end", log[i].id)) = 1
          /\ Cardinality(Positions("end", log[j].id)) = 1

\* the guard of the construct begun at log position i no longer exists
Gone(i) ==
    IF log[i].e \in ParentNames THEN log[i].sc \notin OpenSids
    ELSE log[i].id \notin OpenSids

\* C9: every call a documented construct makes is the one its README row
\* lists: its begin is the Begin Call, the end-function it calls is the End
\* Call (EndPopup for the five popup variants, TreePop for the four tree-node
\* variants), a construct with a release to make has made that call once its
\* guard is gone, and with_CollapsingHeader calls no end-function.
C9_EndCallAsDocumented ==
    \A k \in DOMAIN log :
        log[k].e \in DOMAIN Documented =>
            LET row == Documented[log[k].e]
            IN  /\ log[k].ev \in {"begin", "beginthrow"} => log[k].fn = row.begin
                /\ log[k].ev = "end" => log[k].fn = row.end
                /\ (log[k].ev = "begin" /\ Gone(k)) =>
                      Cardinality({j \in Positions("end", log[k].id) : log[j].fn = row.end}) =
                          IF row.end /= "" /\ Releases(log[k].e, log[k].r) THEN 1 ELSE 0

\* C9 witness: a popup variant other than with_Popup has called EndPopup
C9_Witness ==
    \E k \in DOMAIN log :
        /\ log[k].ev = "end"
        /\ log[k].e = "with_PopupContextVoid"
        /\ log[k].fn = "EndPopup"

\* C10: when a begin-function throws, no guard is constructed for that entry
\* and its end-function is never called, and the guards of the enclosing
\* constructs are still released: none of them is left holding a release when
\* the program has stopped.
C10_ThrowingBeginReleasesEnclosing ==
    \A k \in DOMAIN log :
        log[k].ev = "beginthrow" =>
            /\ Positions("end", log[k].id) = {}
            /\ Positions("body", log[k].id) = {}
            /\ \A n \in DOMAIN Live : Live[n].id /= log[k].id
            /\ Stopped => Owed = << >>

\* ------------------------------------ Special case: StyleColor and StyleVar
\* SpecBind translates one use of set_/with_StyleColor or set_/with_StyleVar:
\* site is the macro and its trailing argument, inst the overload of
\* ImGui::PushStyleColor / ImGui::PushStyleVar the expansion is bound to.
StyleMacros == DOMAIN StyleEntries

ColorMacros == {"set_StyleColor", "with_StyleColor"}

\* the type of the trailing argument, references and cv-qualifiers apart
Integral == {"bool", "char", "int", "ImU32"}
Floating == {"float", "double"}
Arithmetic == Integral \cup Floating

\* the argument types an overload of the begin-function is meant for
ArgTypes(m) ==
    IF m \in ColorMacros THEN Integral \cup {"ImVec4"} ELSE Arithmetic \cup {"ImVec2"}

\* the form of the trailing argument expression: a literal or other prvalue,
\* the unparenthesized name of a variable or member (c, s.c), any other lvalue
\* (an element a[i], *p, a parenthesized name, a call returning T&), or an
\* xvalue
ArgForms == {"prvalue", "name", "lvalue", "xvalue"}

\* decltype(__VA_ARGS__), __VA_ARGS__ being the trailing argument alone (ITEM
\* is a named parameter of the macro): the declared type for a name, T for a
\* prvalue, T& for any other lvalue and T&& for an xvalue
Decltype(base, form) ==
    [base |-> base,
     ref  |-> CASE form = "lvalue" -> "&"
                [] form = "xvalue" -> "&&"
                [] OTHER           -> ""]

\* std::is_integral / std::is_arithmetic: false for a reference type
is_integral(T) == T.ref = "" /\ T.base \in Integral

is_arithmetic(T) == T.ref = "" /\ T.base \in Arithmetic

\* std::conditional<...>::type, the second Args of guard_void, which fixes the
\* overload whose address begin_fn_t takes
StyleColorArg(T) == IF is_integral(T) THEN "ImU32" ELSE "const ImVec4&"

StyleVarArg(T) == IF is_arithmetic(T) THEN "float" ELSE "const ImVec2&"

\* the overload of Push* with this second parameter
OverloadTaking(param) ==
    CASE param = "ImU32"         -> "ImU32"
      [] param = "const ImVec4&" -> "ImVec4"
      [] param = "float"         -> "float"
      [] param = "const ImVec2&" -> "ImVec2"

\* IMGUI_SUGAR_ES(ImGui::PushStyleColor, __VA_ARGS__): an ordinary call, so
\* overload resolution on the argument's type, whatever its value category
ResolvedCall(m, base) ==
    IF m \in ColorMacros
    THEN (IF base \in Arithmetic THEN "ImU32" ELSE "ImVec4")
    ELSE (IF base \in Arithmetic THEN "float" ELSE "ImVec2")

\* the overload a use of the macro is bound to
Binding(v, s) ==
    IF v = "sugar"
    THEN OverloadTaking(IF s.macro \in ColorMacros
                        THEN StyleColorArg(Decltype(s.base, s.form))
                        ELSE StyleVarArg(Decltype(s.base, s.form)))
    ELSE ResolvedCall(s.macro, s.base)

Sites ==
    {[macro |-> m, base |-> b, form |-> f] :
        m \in StyleMacros, b \in Arithmetic \cup {"ImVec2", "ImVec4"}, f \in ArgForms}

InitBind ==
    /\ variant \in Variants
    /\ site \in {s \in Sites : s.base \in ArgTypes(s.macro)}
    /\ inst = "none"
    /\ vocab = {site.macro}
    /\ scopes = << >>
    /\ imgui = << >>
    /\ unmatched = FALSE
    /\ log = << >>
    /\ pc = "bind"
    /\ target = 0
    /\ cause = "none"
    /\ origin = 0
    /\ nextId = 1
    /\ stmts = 0
    /\ blocks = 0
    /\ line = 1
    /\ names = << >>
    /\ twin = "none"

\* the preprocessor and the compiler expand the use
Expand ==
    /\ pc = "bind"
    /\ inst' = Binding(variant, site)
    /\ pc' = "bound"
    /\ UNCHANGED <<variant, vocab, scopes, imgui, unmatched, log, target, cause,
                   origin, nextId, stmts, blocks, site, line, names, twin>>

NextBind == Expand

SpecBind == InitBind /\ [][NextBind]_vars

\* the overload that matches the type of the trailing argument
Matching(s) ==
    IF s.macro \in ColorMacros
    THEN (IF s.base \in Integral THEN "ImU32" ELSE "ImVec4")
    ELSE (IF s.base \in Arithmetic THEN "float" ELSE "ImVec2")

\* C8: a use of set_/with_StyleColor with an integral trailing argument is
\* bound to the ImU32 overload and with any other to the ImVec4 overload; a
\* use of set_/with_StyleVar with an arithmetic scalar is bound to the float
\* overload and with any other to the ImVec2 overload.
C8_OverloadMatchesArgument ==
    pc = "bound" => inst = Matching(site)

\* ------------------------------------------- An end-function that fails
\* SpecEndThrows is Spec with end-functions that may throw when a destructor
\* calls them.

\* the guard the scope being left destroys next
NextDestroyed ==
    IF Top.locals /= << >> THEN Top.locals[Len(Top.locals)] ELSE Top.own[1]

\* ~guard_bool() noexcept { if (AlwaysCallEnd || _state) { _end(); } } and
\* ~guard_void() noexcept { _end(); }: no handler around the call
DtorCatches(g) == FALSE

\* a destructor calls _end() and _end() throws: with a handler the failure
\* stops there and the guard is gone; without one the exception meets the
\* noexcept boundary of the destructor and std::terminate is called
DestructorEndThrows ==
    /\ pc = "leave"
    /\ Len(scopes) > target
    /\ Top.locals /= << >> \/ Top.own /= << >>
    /\ LET x == NextDestroyed
       IN  /\ DtorEnds(x.g) /= << >>
           /\ log' = Append(log, Event("endthrow", x.id, x.entry,
                                       PopWrapper(x.g.end), "throw", x.sc))
           /\ IF DtorCatches(x.g)
              THEN /\ IF Top.locals /= << >>
                      THEN /\ scopes' = [scopes EXCEPT ![Len(scopes)].locals =
                                            SubSeq(@, 1, Len(@) - 1)]
                           /\ UNCHANGED <<pc, target, cause, origin>>
                      ELSE /\ scopes' = SubSeq(scopes, 1, Len(scopes) - 1)
                           /\ Settle(Len(scopes) - 1)
              ELSE /\ pc' = "terminated"
                   /\ UNCHANGED <<scopes, target, cause, origin>>
    /\ UNCHANGED <<variant, vocab, imgui, unmatched, nextId, stmts, blocks,
                   site, inst, line, names, twin>>

NextEndThrows == Next \/ DestructorEndThrows

SpecEndThrows == Init /\ [][NextEndThrows]_vars

\* C11: a failure of the end-function in a guard's destructor is swallowed:
\* it never stops the program, and when the program has stopped no guard is
\* left holding a release.
C11_DestructorSwallowsFailure ==
    (\E k \in DOMAIN log : log[k].ev = "endthrow") =>
        /\ pc /= "terminated"
        /\ Stopped => Owed = << >>

\* ------------------------------------------------- Void-guard entries
\* the entries whose begin-function returns nothing
VoidEntries == DOMAIN ScopedVoid \cup DOMAIN ParentScoped \cup DOMAIN StyleEntries

\* the guard of construct id exists
Alive(id) == \E n \in DOMAIN Live : Live[n].id = id

\* C12: a void-guard construct calls its begin-function exactly once, with
\* the arguments its user wrote and before anything of its body; a self-scoped
\* one then runs its body, exactly once and never skipped; its end-function
\* is not called while the guard exists and has been called exactly once, after
\* the begin, when the guard has been destroyed.
C12_VoidGuardBeginBodyEnd ==
    \A i \in BeginEvents :
        log[i].e \in VoidEntries =>
            LET id == log[i].id
                E  == Positions("end", id)
            IN  /\ Positions("begin", id) = {i}
                /\ log[i].args = VA_ARGS(id)
                /\ \A k \in DOMAIN log : log[k].sc = id => k > i
                /\ log[i].e \in WithGuarded =>
                      /\ Positions("body", id) = {i + 1}
                      /\ Positions("skip", id) = {}
                /\ IF Alive(id)
                   THEN E = {}
                   ELSE Cardinality(E) = 1 /\ \A j \in E : j > i

\* C12 witness: guard_void guards of a with_Group and of a set_* declared in
\* its body, a statement after the set_*, and both guards destroyed
C12_Witness ==
    /\ variant = "sugar"
    /\ pc = "done"
    /\ \E i, j \in BeginEvents :
          /\ log[i].e = "with_Group"
          /\ log[j].e \in ParentNames
          /\ log[j].sc = log[i].id
          /\ \E k \in DOMAIN log : k > j /\ log[k].ev = "stmt" /\ log[k].sc = log[i].id
          /\ Positions("end", log[i].id) /= {}
          /\ Positions("end", log[j].id) /= {}

\* --------------------------------------------------- Copying a guard
\* SpecCopy is Spec with user code that copies a guard it can name: the
\* guard of a with_* is _ui_scope_guard inside its body, the guard of a set_*
\* is _ui_scope_<line> in the rest of its block.

\* guard_bool, guard_void and BooleanGuard declare a constructor and a
\* destructor and nothing else: the copy constructor is implicitly declared
\* and is not deleted, and it also serves to initialize from an rvalue
CopyConstructible(g) == TRUE

\* the guards user code can name: the one of the innermost if statement
\* (it hides those of the outer ones) and those declared in the open blocks
OwnDepths == {d \in DOMAIN scopes : scopes[d].own /= << >>}

Nameable ==
    UNION {{scopes[d].locals[n] : n \in 1..Len(scopes[d].locals)} : d \in DOMAIN scopes}
    \cup {scopes[d].own[1] : d \in {m \in OwnDepths : \A k \in OwnDepths : k <= m}}

\* auto copy = <guard>; in the innermost block: a new object with the
\* members of the original, destroyed with that block
CopyGuard(x) ==
    /\ pc = "run"
    /\ Size < Limit
    /\ x \in Nameable
    /\ CopyConstructible(x.g)
    /\ stmts' = stmts + 1
    /\ scopes' = [scopes EXCEPT ![Len(scopes)].locals =
                      Append(@, Obj(x.id, Top.sid, x.entry, x.g))]
    /\ log' = Append(log, Event("copy", x.id, x.entry, "", "", Top.sid))
    /\ UNCHANGED <<variant, vocab, imgui, unmatched, pc, target, cause, origin,
                   nextId, blocks, site, inst, line, names, twin>>

NextCopy == Next \/ \E x \in Nameable : CopyGuard(x)

SpecCopy == Init /\ [][NextCopy]_vars

\* C13: a guard cannot be copied or moved: no two guards that exist hold the
\* release of the same begin call, and no begin call is released twice.
C13_NoSecondGuardInstance ==
    /\ \A m, n \in DOMAIN Live : Live[m].id = Live[n].id => m = n
    /\ \A i \in BeginEvents : Cardinality(Positions("end", log[i].id)) <= 1

\* ------------------------------------------------ Guard variable names
\* SpecNames writes uses of the macros into a function body, some on the
\* same source line and some on later lines; names holds, for each open
\* lexical scope, the guard names declared in it, in order.
MaxLine == 3
MaxUses == 3

NameVocab == {"with_Window", "with_Group", "with_StyleColor", "set_StyleColor", "set_Font"}

\* _SUGAR_CONCAT1(A, B): A ## B after B has been expanded
SUGAR_CONCAT1(A, B) == << A, B >>

\* the name of the guard variable a use on source line ln declares:
\* _ui_scope_guard in the generic self-scoped macros, _ui_scope_ ## __LINE__
\* in the parent-scoped ones and in set_/with_StyleColor and StyleVar
GuardName(e, ln) ==
    IF GenOf(e) \in ParentGens \/ e \in DOMAIN StyleEntries
    THEN SUGAR_CONCAT1("_ui_scope_", ln)
    ELSE << "_ui_scope_guard" >>

InitNames ==
    /\ variant \in Variants
    /\ vocab = NameVocab
    /\ pc = "write"
    /\ line = 1
    /\ names = << << >> >>
    /\ twin = "none"
    /\ site = "none"
    /\ inst = "none"
    /\ scopes = << >>
    /\ imgui = << >>
    /\ unmatched = FALSE
    /\ log = << >>
    /\ target = 0
    /\ cause = "none"
    /\ origin = 0
    /\ nextId = 1
    /\ stmts = 0
    /\ blocks = 0

\* a with_* use: the guard is declared in the condition of an if statement,
\* whose scope also holds what the outermost block of its body declares
WriteSelfScoped(e) ==
    /\ pc = "write"
    /\ e \in vocab
    /\ GenOf(e) \in BoolGens \cup VoidGens
    /\ nextId <= MaxUses
    /\ nextId' = nextId + 1
    /\ names' = Append(names, << GuardName(e, line) >>)
    /\ UNCHANGED <<variant, vocab, scopes, imgui, unmatched, log, pc, target,
                   cause, origin, stmts, blocks, site, inst, line, twin>>

\* a set_* use: the guard is declared in the innermost open scope
WriteParentScoped(e) ==
    /\ pc = "write"
    /\ e \in vocab
    /\ GenOf(e) \in ParentGens
    /\ nextId <= MaxUses
    /\ nextId' = nextId + 1
    /\ names' = [names EXCEPT ![Len(names)] = Append(@, GuardName(e, line))]
    /\ UNCHANGED <<variant, vocab, scopes, imgui, unmatched, log, pc, target,
                   cause, origin, stmts, blocks, site, inst, line, twin>>

\* the closing brace of a with_* body
WriteClose ==
    /\ pc = "write"
    /\ Len(names) > 1
    /\ names' = SubSeq(names, 1, Len(names) - 1)
    /\ UNCHANGED <<variant, vocab, scopes, imgui, unmatched, log, pc, target,
                   cause, origin, nextId, stmts, blocks, site, inst, line, twin>>

\* the source goes on on the next line
NewLine ==
    /\ pc = "write"
    /\ line < MaxLine
    /\ line' = line + 1
    /\ UNCHANGED <<variant, vocab, scopes, imgui, unmatched, log, pc, target,
                   cause, origin, nextId, stmts, blocks, site, inst, names, twin>>

NextNames ==
    \/ \E e \in NameVocab : WriteSelfScoped(e)
    \/ \E e \in NameVocab : WriteParentScoped(e)
    \/ WriteClose
    \/ NewLine

SpecNames == InitNames /\ [][NextNames]_vars

\* C14: the guard names declared in one lexical scope never collide: no
\* scope holds two guard variables of the same name.
C14_GuardNamesNeverCollide ==
    pc = "write" =>
        \A d \in DOMAIN names : \A m, n \in DOMAIN names[d] :
            names[d][m] = names[d][n] => m = n

\* ------------------------------------- Construction and conversion of
\* a boolean guard
\* what a boolean guard was constructed with: the result of BEGIN in
\* _SUGAR_SCOPED_BOOL, the value of IMGUI_SUGAR_ES(BEGIN, ...) for a void entry
ConstructedWith(r) == IF r = "void" THEN IMGUI_SUGAR_ES ELSE r = "true"

\* C15: constructing a boolean guard and converting it to bool call nothing:
\* what follows the begin call in the log is the body when begin returned
\* true and the skip when it returned false, never an end call, and nothing
\* is released while the guard exists; and as long as the guard exists its
\* state is the value it was constructed with.
C15_BoolGuardStoresAndReturnsState ==
    /\ \A i \in BeginEvents :
          GenOf(log[i].e) \in BoolGens =>
              /\ i < Len(log)
              /\ log[i + 1].id = log[i].id
              /\ log[i + 1].ev = IF log[i].r = "true" THEN "body" ELSE "skip"
              /\ Positions("body", log[i].id) \cup Positions("skip", log[i].id) = {i + 1}
    /\ \A n \in DOMAIN Live :
          Live[n].g.type = "guard_bool" =>
              /\ Positions("end", Live[n].id) = {}
              /\ \E i \in Positions("begin", Live[n].id) :
                    Live[n].g.state = ConstructedWith(log[i].r)

\* C15 witness: a boolean guard constructed with true whose body is running
\* and, in that body, one constructed with false that still exists
C15_Witness ==
    \E m, n \in DOMAIN Live :
        /\ Live[m].g.type = "guard_bool" /\ Live[m].g.state
        /\ Live[n].g.type = "guard_bool" /\ ~Live[n].g.state
        /\ Live[n].sc = Live[m].id
        /\ Positions("body", Live[m].id) /= {}
        /\ Positions("skip", Live[n].id) /= {}

\* ------------------------------- The two implementations of void entries
\* SpecTwin runs the same user code, made of void entries, with each header:
\* twin[v] is the run with header v. A run holds its open scopes with the
\* guards that exist in each (in order of construction), the calls made so
\* far, the number of constructs and loops used and how it last left a scope.
MaxTwinSize == 3

TwinVocab == {"with_Group", "with_ID", "set_Font", "set_StyleColor"}

Frame(kind, guards) == [kind |-> kind, guards |-> guards]

\* the calls the end-functions of ends make
EndCalls(ends) == [i \in DOMAIN ends |-> PopWrapper(ends[i])]

\* the calls made when the guards gs are destroyed, last constructed first
RECURSIVE DtorCalls(_)
DtorCalls(gs) ==
    IF gs = << >> THEN << >>
    ELSE EndCalls(DtorEnds(gs[Len(gs)])) \o DtorCalls(SubSeq(gs, 1, Len(gs) - 1))

\* the calls made when the innermost scopes are left and keep of them stay
RECURSIVE UnwindCalls(_, _)
UnwindCalls(frames, keep) ==
    IF Len(frames) <= keep THEN << >>
    ELSE DtorCalls(frames[Len(frames)].guards)
         \o UnwindCalls(SubSeq(frames, 1, Len(frames) - 1), keep)

\* control leaves the innermost scopes of a run
LeaveRun(run, why, keep) ==
    [run EXCEPT !.calls  = @ \o UnwindCalls(run.frames, keep),
                !.frames = SubSeq(@, 1, keep),
                !.exit   = why,
                !.st     = IF keep = 0 THEN "done" ELSE "run"]

\* one use of void entry e with header v, BEGIN returning or throwing: a throw
\* inside guard_void's noexcept constructor ends the run in std::terminate,
\* a throw in IMGUI_SUGAR_ES's lambda propagates to the caller
UseRun(run, v, e, r) ==
    LET began == [run EXCEPT !.calls = Append(@, BeginOf(e)), !.used = @ + 1]
        g     == VoidGuard(v, EndOf(e))
        made  == [began EXCEPT !.calls = @ \o EndCalls(CtorEnds(g))]
    IN  IF r = "throw"
        THEN IF BeginInsideNoexceptCtor(v, GenOf(e))
             THEN [began EXCEPT !.st = "terminated", !.exit = "terminate"]
             ELSE LeaveRun(began, "throw", 0)
        ELSE IF GenOf(e) \in ParentGens
        THEN [made EXCEPT !.frames[Len(run.frames)].guards = Append(@, g)]
        ELSE IF OperatorBool(g)
        THEN [made EXCEPT !.calls  = @ \o EndCalls(OperatorBoolEnds(g)) \o << "body" >>,
                          !.frames = Append(@, Frame("with", << g >>))]
        ELSE [made EXCEPT !.calls = @ \o EndCalls(OperatorBoolEnds(g)) \o DtorCalls(<< g >>)]

BothRunning == \A v \in Variants : twin[v].st = "run"

TwinLoops(run) == {i \in 1..Len(run.frames) : run.frames[i].kind = "loop"}

TwinInnermostLoop(run) ==
    CHOOSE i \in TwinLoops(run) : \A j \in TwinLoops(run) : j <= i

InitTwin ==
    /\ twin = [v \in Variants |->
                  [frames |-> << Frame("fn", << >>) >>, calls |-> << >>,
                   used |-> 0, exit |-> "none", st |-> "run"]]
    /\ variant = "sugar"
    /\ vocab = TwinVocab
    /\ pc = "twin"
    /\ line = 1
    /\ names = << >>
    /\ site = "none"
    /\ inst = "none"
    /\ scopes = << >>
    /\ imgui = << >>
    /\ unmatched = FALSE
    /\ log = << >>
    /\ target = 0
    /\ cause = "none"
    /\ origin = 0
    /\ nextId = 1
    /\ stmts = 0
    /\ blocks = 0

\* one statement of the user code in both runs: after is the run of each
\* header once it has executed the statement
TwinStep(after) ==
    /\ pc = "twin"
    /\ BothRunning
    /\ twin' = after
    /\ UNCHANGED <<variant, vocab, scopes, imgui, unmatched, log, pc, target,
                   cause, origin, nextId, stmts, blocks, site, inst, line, names>>

\* both runs use the same void entry and BEGIN behaves the same in both
TwinUse(e, r) ==
    /\ e \in vocab
    /\ r \in VoidResults
    /\ \A v \in Variants : twin[v].used < MaxTwinSize
    /\ TwinStep([v \in Variants |-> UseRun(twin[v], v, e, r)])

\* both runs enter a loop body
TwinOpenLoop ==
    /\ \A v \in Variants : twin[v].used < MaxTwinSize
    /\ TwinStep([v \in Variants |->
                    [twin[v] EXCEPT !.frames = Append(@, Frame("loop", << >>)),
                                    !.used = @ + 1]])

\* both runs reach the closing brace of the innermost scope
TwinClose ==
    TwinStep([v \in Variants |->
                 LeaveRun(twin[v], "normal", Len(twin[v].frames) - 1)])

\* both runs throw or return in the innermost body
TwinLeave(why) ==
    /\ why \in {"throw", "return"}
    /\ TwinStep([v \in Variants |-> LeaveRun(twin[v], why, 0)])

\* both runs break out of, or continue, the innermost loop
TwinBreakContinue(how) ==
    /\ how \in {"break", "continue"}
    /\ \A v \in Variants : TwinLoops(twin[v]) /= {}
    /\ TwinStep([v \in Variants |->
                    LeaveRun(twin[v], how, TwinInnermostLoop(twin[v]) - 1)])

NextTwin ==
    \/ \E e \in TwinVocab, r \in VoidResults : TwinUse(e, r)
    \/ TwinOpenLoop
    \/ TwinClose
    \/ \E w \in {"throw", "return"} : TwinLeave(w)
    \/ \E h \in {"break", "continue"} : TwinBreakContinue(h)

SpecTwin == InitTwin /\ [][NextTwin]_vars

\* C16: a void entry implemented with guard_void and one implemented with a
\* boolean guard that always releases and IMGUI_SUGAR_ES make the same
\* sequence of begin, body and end calls, whatever the user code does and
\* however the begin-function behaves.
C16_VoidImplementationsEquivalent ==
    pc = "twin" => twin["sugar"].calls = twin["ImGuiSugar"].calls

=============================================================================
